---- MODULE Spec2Model ----
(***************************************************************************)
(* set-filter (src/src/main.rs): one invocation of the command-line tool   *)
(* as a state machine.  A text is a sequence of characters; the characters *)
(* are a letter or two, the line feed "LF" and the carriage return "CR".   *)
(* The environment of a process is the base file, standard input, the      *)
(* comparison file, the number of lines standard output accepts before the *)
(* pipe breaks, and whether the error stream can be written.               *)
(***************************************************************************)
EXTENDS Integers, Sequences, FiniteSets, TLC

VARIABLES opts, fileBase, stdinData, fileCmp, stdoutCap, stderrOk,
          pc, handler, text, compare, a, b, rest, pending,
          emitted, stdout, stderr, ioLog, err, exitCode,
          invocation, first

env  == <<fileBase, stdinData, fileCmp, stdoutCap, stderrOk>>
proc == <<pc, handler, text, compare, a, b, rest, pending,
          emitted, stdout, stderr, ioLog, err, exitCode>>
vars == <<opts, env, proc, invocation, first>>

(*************************** bounds ****************************************)
\* longest base text of Spec, in characters
MaxLen == 3
\* longest comparison text of Spec, in characters
MaxCmpLen == 1
\* most lines of a base text of SpecLines
MaxLines == 4
\* most lines of a comparison text of SpecLines
MaxCmpLines == 2
\* the pipe behind standard output breaks after 0..MaxCap lines, or never
MaxCap == 1

(*************************** program constants *****************************)
\* std::process::exit(1)
EXIT_FAILURE == 1
\* main returned
EXIT_SUCCESS == 0
\* the exit code of a Rust process that panicked (eprintln! panics when the
\* write to the error stream fails)
EXIT_PANIC == 101
\* the process has not ended yet
Running == -1

LF == "LF"
CR == "CR"
Alphabet == {"x", CR, LF}
Words == {<<"x">>, <<"y">>}

Strings(n) == UNION {[1..k -> Alphabet] : k \in 0..n}
WordSeqs(n) == UNION {[1..k -> Words] : k \in 0..n}

RECURSIVE JoinLines(_)
JoinLines(ls) ==
    IF ls = <<>> THEN <<>> ELSE Head(ls) \o <<LF>> \o JoinLines(Tail(ls))

Readable(s) == [ok |-> TRUE, data |-> s]
Unreadable  == [ok |-> FALSE, data |-> <<>>]
None        == [some |-> FALSE, v |-> <<>>]
Some(s)     == [some |-> TRUE, v |-> s]
Open        == -1

(*************************** str::lines ************************************)
\* the index of the first LF of s, or Len(s) when it has none
RECURSIVE FirstBreak(_, _)
FirstBreak(s, i) ==
    IF i >= Len(s) THEN Len(s)
    ELSE IF s[i] = LF THEN i ELSE FirstBreak(s, i + 1)

\* str::split_inclusive('\n'): the pieces of s, each ending with its LF
\* (the last one may have none); the empty text has no piece
RECURSIVE split_inclusive(_)
split_inclusive(s) ==
    IF s = <<>> THEN <<>>
    ELSE LET k == FirstBreak(s, 1)
         IN  <<SubSeq(s, 1, k)>> \o split_inclusive(SubSeq(s, k + 1, Len(s)))

ends_with(s, c) == Len(s) > 0 /\ s[Len(s)] = c
chop(s) == SubSeq(s, 1, Len(s) - 1)

\* variant (str::lines of older toolchains): the CR is stripped from an
\* unterminated last piece too
strip_terminator_always(piece) ==
    LET l == IF ends_with(piece, LF) THEN chop(piece) ELSE piece
    IN  IF ends_with(l, CR) THEN chop(l) ELSE l

\* what str::lines makes of one piece: strip the LF, and then one CR, and
\* leave a piece without LF as it is
strip_terminator(piece) ==
    IF ~ends_with(piece, LF) THEN piece
    ELSE LET l == chop(piece)
         IN  IF ends_with(l, CR) THEN chop(l) ELSE l

\* text.lines()
lines(s) ==
    LET ps == split_inclusive(s)
    IN  [i \in 1..Len(ps) |-> strip_terminator(ps[i])]

Range(q) == {q[i] : i \in 1..Len(q)}

(*************************** the filters ***********************************)
\* HashSet::insert: the set afterwards, and whether the value was new
insert(set, value) == [set |-> set \cup {value}, new |-> value \notin set]

\* variant: the result of insert is ignored, every line is kept
unique_pred_keep_all(sa, sb, value) ==
    LET ia == insert(sa, value) IN [keep |-> TRUE, a |-> ia.set, b |-> sb]

\* |&value| a.insert(value)
unique_pred(sa, sb, value) ==
    LET ia == insert(sa, value) IN [keep |-> ia.new, a |-> ia.set, b |-> sb]

\* variant: without the second set, a line is kept at every occurrence after
\* its first
repeated_pred_no_b(sa, sb, value) ==
    LET ia == insert(sa, value) IN [keep |-> ~ia.new, a |-> ia.set, b |-> sb]

\* |&value| !a.insert(value) && b.insert(value): b is touched only when the
\* insertion into a failed
repeated_pred(sa, sb, value) ==
    LET ia == insert(sa, value)
        ib == insert(sb, value)
    IN  IF ia.new THEN [keep |-> FALSE, a |-> ia.set, b |-> sb]
        ELSE [keep |-> ib.new, a |-> ia.set, b |-> ib.set]

\* Filter::next over text.lines(): scan on to the next line the predicate
\* keeps
RECURSIVE filter_next(_, _, _, _)
filter_next(rs, sa, sb, reverse) ==
    IF rs = <<>>
    THEN [some |-> FALSE, value |-> <<>>, rest |-> <<>>, a |-> sa, b |-> sb]
    ELSE LET p == IF reverse THEN repeated_pred(sa, sb, Head(rs))
                  ELSE unique_pred(sa, sb, Head(rs))
         IN  IF p.keep
             THEN [some |-> TRUE, value |-> Head(rs), rest |-> Tail(rs),
                   a |-> p.a, b |-> p.b]
             ELSE filter_next(Tail(rs), p.a, p.b, reverse)

\* variant: b.difference(&a)
difference_swapped(sa, sb) == sb \ sa

\* a.difference(&b)
difference(sa, sb) == {v \in sa : v \notin sb}

\* variant: a.union(&b)
intersection_as_union(sa, sb) == sa \cup sb

\* a.intersection(&b): the values of one set that the other holds too
intersection(sa, sb) == {v \in sa : v \in sb}

(*************************** the process ***********************************)
\* variant: --reverse looked at before the subcommand
run_reverse_first(o) ==
    IF o.reverse THEN "print_unique"
    ELSE IF o.command = "diff" THEN "print_difference"
    ELSE IF o.command = "intersect" THEN "print_intersection"
    ELSE "print_unique"

\* fn run: the handler the subcommand selects
run(o) ==
    IF o.command = "diff" THEN "print_difference"
    ELSE IF o.command = "intersect" THEN "print_intersection"
    ELSE "print_unique"

\* variant: standard input read when the base file cannot be read
read_text_with_fallback(o, file, stdin) ==
    IF o.path /\ file.ok THEN <<[op |-> "read_base_file", ok |-> TRUE, got |-> file.data]>>
    ELSE IF o.path
         THEN <<[op |-> "read_base_file", ok |-> FALSE, got |-> <<>>],
                [op |-> "read_stdin", ok |-> stdin.ok, got |-> stdin.data]>>
         ELSE <<[op |-> "read_stdin", ok |-> stdin.ok, got |-> stdin.data]>>

\* fn read_text: the reads it makes, in order, each with its outcome
read_text(o, file, stdin) ==
    IF o.path
    THEN <<[op |-> "read_base_file", ok |-> file.ok, got |-> file.data]>>
    ELSE <<[op |-> "read_stdin", ok |-> stdin.ok, got |-> stdin.data]>>

\* variant: the comparison file is never read
after_read_text_skip_compare(h) == "collect"

\* what follows `let text = read_text(opts)?;` in the handler
after_read_text(h) == IF h = "print_unique" THEN "collect" ELSE "read_compare"

\* variant: for_each that drops the result of writeln!
try_for_each_ignore_error(ok) == "format"

\* try_for_each: go on after a successful writeln!, stop at the first error
try_for_each(ok) == IF ok THEN "format" ELSE "exit"

Log(entries) == [i \in 1..Len(entries) |-> [op |-> entries[i].op, ok |-> entries[i].ok]]

Start ==
    /\ pc = "main" /\ handler = "none" /\ text = None /\ compare = None
    /\ a = {} /\ b = {} /\ rest = <<>> /\ pending = {}
    /\ emitted = <<>> /\ stdout = <<>> /\ stderr = <<>> /\ ioLog = <<>>
    /\ err = "none" /\ exitCode = Running

Start_next ==
    /\ pc' = "main" /\ handler' = "none" /\ text' = None /\ compare' = None
    /\ a' = {} /\ b' = {} /\ rest' = <<>> /\ pending' = {}
    /\ emitted' = <<>> /\ stdout' = <<>> /\ stderr' = <<>> /\ ioLog' = <<>>
    /\ err' = "none" /\ exitCode' = Running

NoRun == [ran |-> FALSE, opts |-> [path |-> FALSE, reverse |-> FALSE, command |-> "none"],
          text |-> None, compare |-> None, emitted |-> <<>>, stdout |-> <<>>,
          exitCode |-> Running]

Opts == [path : BOOLEAN, reverse : BOOLEAN, command : {"none", "diff", "intersect"}]

\* the other base source, the one the options do not name
Decoy == Readable(<<"x", LF, "x", LF>>)

InitWith(BaseTexts, CmpTexts) ==
    /\ opts \in Opts
    /\ \E src \in {Readable(t) : t \in BaseTexts} \cup {Unreadable} :
         /\ fileBase = (IF opts.path THEN src ELSE Decoy)
         /\ stdinData = (IF opts.path THEN Decoy ELSE src)
    /\ fileCmp \in (IF opts.command = "none" THEN {Unreadable}
                    ELSE {Readable(t) : t \in CmpTexts} \cup {Unreadable})
    /\ stdoutCap \in (0..MaxCap) \cup {Open}
    /\ stderrOk \in BOOLEAN
    /\ Start
    /\ invocation = "first"
    /\ first = NoRun

Init == InitWith(Strings(MaxLen), Strings(MaxCmpLen))

InitLines ==
    InitWith({JoinLines(ls) : ls \in WordSeqs(MaxLines)},
             {JoinLines(ls) : ls \in WordSeqs(MaxCmpLines)})

\* fn main / fn run: select the handler
Dispatch ==
    /\ pc = "main"
    /\ handler' = run(opts)
    /\ pc' = "read_text"
    /\ UNCHANGED <<opts, env, text, compare, a, b, rest, pending, emitted,
                   stdout, stderr, ioLog, err, exitCode, invocation, first>>

\* let text = read_text(opts)?;
ReadText ==
    /\ pc = "read_text"
    /\ LET rs == read_text(opts, fileBase, stdinData)
           last == rs[Len(rs)]
       IN  /\ ioLog' = ioLog \o Log(rs)
           /\ IF last.ok
              THEN /\ text' = Some(last.got)
                   /\ pc' = after_read_text(handler)
                   /\ err' = err
              ELSE /\ text' = text
                   /\ pc' = "exit"
                   /\ err' = last.op
    /\ UNCHANGED <<opts, env, handler, compare, a, b, rest, pending, emitted,
                   stdout, stderr, exitCode, invocation, first>>

\* let compare = fs::read_to_string(path)?;
ReadCompare ==
    /\ pc = "read_compare"
    /\ ioLog' = Append(ioLog, [op |-> "read_compare_file", ok |-> fileCmp.ok])
    /\ IF fileCmp.ok
       THEN /\ compare' = Some(fileCmp.data)
            /\ pc' = "collect"
            /\ err' = err
       ELSE /\ compare' = compare
            /\ pc' = "exit"
            /\ err' = "read_compare_file"
    /\ UNCHANGED <<opts, env, handler, text, a, b, rest, pending, emitted,
                   stdout, stderr, exitCode, invocation, first>>

\* the sets and the iterator the handler hands to format
Collect ==
    /\ pc = "collect"
    /\ IF handler = "print_unique"
       THEN /\ a' = {} /\ b' = {}
            /\ rest' = lines(text.v)
            /\ pending' = {}
       ELSE /\ a' = Range(lines(text.v))
            /\ b' = Range(lines(compare.v))
            /\ rest' = <<>>
            /\ pending' = IF handler = "print_difference"
                          THEN difference(a', b') ELSE intersection(a', b')
    /\ pc' = "format"
    /\ UNCHANGED <<opts, env, handler, text, compare, emitted,
                   stdout, stderr, ioLog, err, exitCode, invocation, first>>

\* writeln!(lock, "{}", value), on a pipe that accepts stdoutCap lines
Writeln(value) ==
    LET ok == stdoutCap = Open \/ Len(emitted) < stdoutCap
    IN  /\ ioLog' = Append(ioLog, [op |-> "write_stdout", ok |-> ok])
        /\ pc' = try_for_each(ok)
        /\ IF ok
           THEN /\ emitted' = Append(emitted, value)
                /\ stdout' = stdout \o value \o <<LF>>
                /\ err' = err
           ELSE /\ UNCHANGED <<emitted, stdout>>
                /\ err' = "write_stdout"

\* fn format: one turn of try_for_each, the next value of the iterator
\* written; a hash set yields its values in any order
Format ==
    /\ pc = "format"
    /\ IF handler = "print_unique"
       THEN LET nx == filter_next(rest, a, b, opts.reverse)
            IN  /\ a' = nx.a /\ b' = nx.b /\ rest' = nx.rest
                /\ pending' = pending
                /\ IF nx.some THEN Writeln(nx.value)
                   ELSE /\ pc' = "exit"
                        /\ UNCHANGED <<emitted, stdout, ioLog, err>>
       ELSE /\ UNCHANGED <<a, b, rest>>
            /\ IF pending = {}
               THEN /\ pc' = "exit"
                    /\ UNCHANGED <<pending, emitted, stdout, ioLog, err>>
               ELSE \E value \in pending :
                      /\ pending' = pending \ {value}
                      /\ Writeln(value)
    /\ UNCHANGED <<opts, env, handler, text, compare, stderr, exitCode,
                   invocation, first>>

\* WithOpts::run: on Err, eprintln! the error and exit(1); eprintln! panics
\* when the error stream cannot be written.  On Ok, main returns.
Exit ==
    /\ pc = "exit"
    /\ pc' = "exited"
    /\ IF err = "none"
       THEN /\ exitCode' = EXIT_SUCCESS
            /\ UNCHANGED <<stderr, ioLog>>
       ELSE /\ ioLog' = Append(ioLog, [op |-> "write_stderr", ok |-> stderrOk])
            /\ IF stderrOk
               THEN /\ stderr' = Append(stderr, err)
                    /\ exitCode' = EXIT_FAILURE
               ELSE /\ stderr' = stderr
                    /\ exitCode' = EXIT_PANIC
    /\ UNCHANGED <<opts, env, handler, text, compare, a, b, rest, pending,
                   emitted, stdout, err, invocation, first>>

ThisRun == [ran |-> TRUE, opts |-> opts, text |-> text, compare |-> compare,
            emitted |-> emitted, stdout |-> stdout, exitCode |-> exitCode]

\* the program is started again in the same environment, with --reverse
\* toggled
RerunFlipped ==
    /\ pc = "exited" /\ invocation = "first"
    /\ first' = ThisRun
    /\ invocation' = "flipped"
    /\ opts' = [opts EXCEPT !.reverse = ~opts.reverse]
    /\ Start_next
    /\ UNCHANGED env

\* the program is started again with the same options, its base source now
\* holding what the first run wrote to standard output
RerunPiped ==
    /\ pc = "exited" /\ invocation = "first"
    /\ exitCode = EXIT_SUCCESS
    /\ first' = ThisRun
    /\ invocation' = "piped"
    /\ IF opts.path
       THEN fileBase' = Readable(stdout) /\ stdinData' = stdinData
       ELSE stdinData' = Readable(stdout) /\ fileBase' = fileBase
    /\ Start_next
    /\ UNCHANGED <<opts, fileCmp, stdoutCap, stderrOk>>

Next ==
    \/ Dispatch
    \/ ReadText
    \/ ReadCompare
    \/ Collect
    \/ Format
    \/ Exit
    \/ RerunFlipped
    \/ RerunPiped

Spec == Init /\ [][Next]_vars

SpecLines == InitLines /\ [][Next]_vars

(*************************** claims ***************************************)
IsPrefix(p, q) == Len(p) <= Len(q) /\ SubSeq(q, 1, Len(p)) = p
Finished == pc = "exited"
Succeeded == pc = "exited" /\ exitCode = EXIT_SUCCESS

\* how often v occurs among the first n lines of ls
Count(ls, v, n) == Cardinality({i \in 1..n : ls[i] = v})

\* the lines of ls at their n-th occurrence, in the order of ls
RECURSIVE Occurrences(_, _, _)
Occurrences(ls, n, i) ==
    IF i > Len(ls) THEN <<>>
    ELSE (IF Count(ls, ls[i], i) = n THEN <<ls[i]>> ELSE <<>>)
         \o Occurrences(ls, n, i + 1)

NoDuplicates(q) == Cardinality(Range(q)) = Len(q)

\* C1: unique mode without --reverse writes the input's lines at their first
\* occurrence, in input order, and nothing else: each distinct line once.  What
\* is on standard output is these lines, each followed by a line feed; a run
\* cut short by a write error has written a prefix of them.
C1_UniqueFirstOccurrences ==
    (handler = "print_unique" /\ ~opts.reverse /\ text.some) =>
        LET want == Occurrences(lines(text.v), 1, 1)
        IN  /\ IsPrefix(emitted, want)
            /\ stdout = JoinLines(emitted)
            /\ (Succeeded => /\ emitted = want
                             /\ NoDuplicates(emitted)
                             /\ Range(emitted) = Range(lines(text.v)))

C1_Witness ==
    /\ Succeeded /\ handler = "print_unique" /\ ~opts.reverse
    /\ Len(lines(text.v)) = 4 /\ Len(emitted) = 2
    /\ lines(text.v)[3] = lines(text.v)[1]

\* C2: unique mode with --reverse writes exactly the lines that occur at least
\* twice, each once, in the order of their second occurrences.
C2_ReverseSecondOccurrences ==
    (handler = "print_unique" /\ opts.reverse /\ text.some) =>
        LET ls == lines(text.v)
            want == Occurrences(ls, 2, 1)
        IN  /\ IsPrefix(emitted, want)
            /\ (Succeeded =>
                  /\ emitted = want
                  /\ NoDuplicates(emitted)
                  /\ Range(emitted) = {v \in Range(ls) : Count(ls, v, Len(ls)) >= 2})

\* a line seen three times, written once
C2_Witness ==
    /\ Succeeded /\ handler = "print_unique" /\ opts.reverse
    /\ LET ls == lines(text.v)
       IN  /\ Len(ls) = 4
           /\ Count(ls, ls[1], 4) = 3
           /\ emitted = <<ls[1]>>

\* C3: diff writes the lines of the base text that are not lines of the
\* comparison text, each exactly once.
C3_Difference ==
    (handler = "print_difference" /\ text.some /\ compare.some) =>
        LET want == {l \in Range(lines(text.v)) : l \notin Range(lines(compare.v))}
        IN  /\ Range(emitted) \subseteq want
            /\ NoDuplicates(emitted)
            /\ (Succeeded => Range(emitted) = want)

C3_Witness ==
    /\ Succeeded /\ handler = "print_difference"
    /\ Len(lines(text.v)) = 4 /\ Len(emitted) = 1
    /\ Count(lines(text.v), emitted[1], 4) >= 2
    /\ Len(lines(compare.v)) = 2
    /\ Range(lines(text.v)) \cap Range(lines(compare.v)) # {}

\* C4: intersect writes the lines of the base text that are lines of the
\* comparison text too, each exactly once.
C4_Intersection ==
    (handler = "print_intersection" /\ text.some /\ compare.some) =>
        LET want == {l \in Range(lines(text.v)) : l \in Range(lines(compare.v))}
        IN  /\ Range(emitted) \subseteq want
            /\ NoDuplicates(emitted)
            /\ (Succeeded => Range(emitted) = want)

C4_Witness ==
    /\ Succeeded /\ handler = "print_intersection"
    /\ Len(lines(text.v)) = 4 /\ Len(emitted) = 1
    /\ Count(lines(text.v), emitted[1], 4) >= 2
    /\ Count(lines(compare.v), emitted[1], Len(lines(compare.v))) = 2
    /\ Cardinality(Range(lines(text.v))) = 2

PipelineOps == {"read_base_file", "read_stdin", "read_compare_file", "write_stdout"}
Failures == {i \in 1..Len(ioLog) : ioLog[i].op \in PipelineOps /\ ~ioLog[i].ok}
PipelineSteps == {i \in 1..Len(ioLog) : ioLog[i].op \in PipelineOps}

\* C5 as claimed: a finished run has exit code 1 exactly when a read or a
\* write of the pipeline failed, it has then written one message to the error
\* stream and run no pipeline step after the failing one; otherwise it has
\* exit code 0 and an empty error stream.
C5_ExitCodeOneIffIoFailed ==
    Finished =>
        /\ (exitCode = EXIT_FAILURE) <=> (Failures # {})
        /\ (Failures # {} =>
              /\ Len(stderr) = 1
              /\ \A i \in Failures : \A j \in PipelineSteps : j <= i)
        /\ (Failures = {} => exitCode = EXIT_SUCCESS /\ stderr = <<>>)

\* C5 as amended: a read or write of the pipeline failed exactly when the exit
\* code is not 0; the failing step is the only failure and the last step of
\* the pipeline; the exit code is 1 with one message on the error stream when
\* the error stream takes the message, and the process panics (exit code 101,
\* no message) when it does not.
C5_ExitCodeAmended ==
    Finished =>
        /\ (exitCode # EXIT_SUCCESS) <=> (Failures # {})
        /\ (Failures # {} =>
              /\ Cardinality(Failures) = 1
              /\ \A i \in Failures : \A j \in PipelineSteps : j <= i
              /\ stderrOk => exitCode = EXIT_FAILURE /\ stderr = <<err>>
              /\ ~stderrOk => exitCode = EXIT_PANIC /\ stderr = <<>>)
        /\ (Failures = {} => exitCode = EXIT_SUCCESS /\ stderr = <<>>)

\* standard output broke after a first line was written
C5_Witness ==
    /\ Finished /\ exitCode = EXIT_FAILURE
    /\ err = "write_stdout" /\ Len(emitted) = 1
    /\ Cardinality(a) = 2
    /\ stderr = <<"write_stdout">>

\* C6: unique mode run on what unique mode wrote writes the same text again.
C6_UniqueIdempotent ==
    (Succeeded /\ invocation = "piped" /\ handler = "print_unique" /\ ~opts.reverse)
        => stdout = first.stdout

\* the text between the line feeds of s: where each piece starts
SegmentStarts(s) ==
    {p \in 1..Len(s) : p = 1 \/ s[p - 1] = LF}
SegmentEnd(s, p) ==
    IF \E i \in p..Len(s) : s[i] = LF
    THEN CHOOSE i \in p..Len(s) : s[i] = LF /\ \A j \in p..(i - 1) : s[j] # LF
    ELSE Len(s) + 1
RawSegments(s) ==
    {[content |-> SubSeq(s, p, SegmentEnd(s, p) - 1),
      terminated |-> SegmentEnd(s, p) <= Len(s)] : p \in SegmentStarts(s)}

\* the sets are complete: built by collect in diff and intersect mode, and in
\* unique mode once every line went through the filter
SetsBuilt ==
    \/ handler \in {"print_difference", "print_intersection"}
         /\ pc \in {"format", "exit", "exited"} /\ err # "read_compare_file"
         /\ text.some /\ compare.some
    \/ handler = "print_unique" /\ Succeeded

\* C7 as claimed: the elements of a set are the strings between the line
\* feeds of the text, unchanged.
C7_NoNormalization ==
    SetsBuilt =>
        /\ a = {g.content : g \in RawSegments(text.v)}
        /\ handler # "print_unique" =>
              b = {g.content : g \in RawSegments(compare.v)}

CrLfStripped(g) ==
    IF g.terminated /\ ends_with(g.content, CR) THEN chop(g.content) ELSE g.content

\* C7 as amended: the elements of a set are the strings between the line feeds
\* of the text, each without the one carriage return that stands right before
\* its line feed, and otherwise unchanged: two such strings are one element
\* exactly when they are equal.
C7_OnlyCrLfStripped ==
    SetsBuilt =>
        /\ a = {CrLfStripped(g) : g \in RawSegments(text.v)}
        /\ handler # "print_unique" =>
              b = {CrLfStripped(g) : g \in RawSegments(compare.v)}

\* CR LF ended one line, a bare CR at the end of the text stayed a line of
\* its own
C7_Witness ==
    /\ SetsBuilt /\ handler = "print_difference"
    /\ text.v = <<CR, LF, CR>>
    /\ a = {<<>>, <<CR>>}

BaseReads == {i \in 1..Len(ioLog) : ioLog[i].op \in {"read_base_file", "read_stdin"}}

\* C8: the base text is read from the file when a base path is given and from
\* standard input when none is given: one read of one source, with no read of
\* the other, also when that read fails.
C8_OneBaseSource ==
    /\ \A i \in BaseReads :
          ioLog[i].op = (IF opts.path THEN "read_base_file" ELSE "read_stdin")
    /\ Cardinality(BaseReads) = (IF pc \in {"main", "read_text"} THEN 0 ELSE 1)
    /\ text.some => text.v = (IF opts.path THEN fileBase.data ELSE stdinData.data)
    /\ (~pc \in {"main", "read_text"} /\ ~text.some) => err \in {"read_base_file", "read_stdin"}

C8_Witness ==
    /\ Finished /\ opts.path /\ ~fileBase.ok /\ stdinData.ok
    /\ exitCode = EXIT_FAILURE /\ err = "read_base_file"
    /\ emitted = <<>>

Reads == {i \in 1..Len(ioLog) :
            ioLog[i].op \in {"read_base_file", "read_stdin", "read_compare_file"}}
Writes == {i \in 1..Len(ioLog) : ioLog[i].op = "write_stdout"}

\* C9: a write to standard output is attempted only after the base source and,
\* in diff and intersect mode, the comparison file were read with success, the
\* base source first; a run whose read failed has written nothing.
C9_ReadBeforeWrite ==
    /\ (Writes # {} \/ stdout # <<>>) =>
          /\ text.some
          /\ handler # "print_unique" => compare.some
          /\ \A r \in Reads : ioLog[r].ok /\ \A w \in Writes : r < w
    /\ \A r \in Reads : ioLog[r].op = "read_compare_file" => r = 2 /\ ioLog[1].ok
    /\ (\E r \in Reads : ~ioLog[r].ok) => stdout = <<>> /\ emitted = <<>>

C9_Witness ==
    /\ Finished /\ handler = "print_intersection"
    /\ Len(emitted) = 1 /\ stdout # <<>>
    /\ Cardinality(Reads) = 2

\* C10: a diff or intersect run and the run with --reverse toggled, in the
\* same environment, end with the same exit code and the same number of lines
\* written, and when they end well, with the same lines.
C10_ReverseIgnored ==
    (Finished /\ invocation = "flipped" /\ opts.command \in {"diff", "intersect"}) =>
        /\ exitCode = first.exitCode
        /\ Len(emitted) = Len(first.emitted)
        /\ exitCode = EXIT_SUCCESS => Range(emitted) = Range(first.emitted)

C10_Witness ==
    /\ Succeeded /\ invocation = "flipped" /\ opts.command = "diff" /\ opts.reverse
    /\ Len(lines(text.v)) = 4 /\ Len(emitted) = 2

====
